---- MODULE Spec2Model ----
(***************************************************************************)
(* The interpreter lifecycle of zajal (src/src/ZajalInterpreter.cc): the   *)
(* state machine NoSketch / Running / Error, the phase handlers with their *)
(* hook pipelines, the input-event handlers, the script loader/reloader    *)
(* and the watch-poll driven by the draw counter.                          *)
(*                                                                         *)
(* Script-defined callables are opaque: every invocation gets its outcome  *)
(* (TRUE = returned normally, FALSE = raised) as an input of the action.   *)
(* The host calls the public handlers in any order; run() is the call that *)
(* leaves NoSketch, exit() is the last call of a session.                  *)
(*                                                                         *)
(* The kind of session bounds the environment.  In an "edit" session the   *)
(* files are edited, removed and loaded while the host draws.  In a hook   *)
(* session (named after a phase) one script is loaded, it registers        *)
(* hooks on that phase, and the host runs the four phases.  In a "play"    *)
(* session one script is loaded and the host draws and delivers key, mouse *)
(* and window events.  A handler is the same code in every session.        *)
(***************************************************************************)
EXTENDS Integers, Sequences, FiniteSets, TLC

\* ------------------------------------------------------------------ bounds
\* the configured watch interval (a macro of ZajalInterpreter.h); every
\* formula below is stated for an arbitrary value of it
SCRIPT_UPDATE_FREQUENCY == 1
\* most hooks the scripting engine holds per list
MaxHooks == 2
\* modification times run over 1..MaxTime
MaxTime == 2
\* most entries of the watch list
MaxWatch == 2
\* draw calls explored: one watch period and one more draw in an edit
\* session, one watch period in the others
MaxDraws(s) ==
  IF s = "edit" THEN SCRIPT_UPDATE_FREQUENCY + 2
  ELSE SCRIPT_UPDATE_FREQUENCY + 1

\* ------------------------------------------------------------- value spaces
FileNames == {"a.rb", "b.rb"}
\* the scripts a session loads: any file in an edit session, one sketch otherwise
Scripts(s) == IF s = "edit" THEN FileNames ELSE {"a.rb"}
NULL == "NULL"
Buttons == 0..3
Positions == {<<0, 0>>, <<1, 2>>}
NoImage == <<>>
NoMouse == <<>>

VARIABLES
  state,               \* InterpreterState
  ruby_error,          \* the engine's error flag of the last protected call
  nextUpdate,          \* int, the watch-check counter
  scriptModifiedTime,  \* shared last-seen timestamp
  scriptName,          \* char*, NULL until loadScript
  watched_files,       \* the engine-side watch list
  keyIsPressed,
  mouseIsPressed,
  lastMouse,           \* <<lastMouseX, lastMouseY, lastMouseButton>>, unset at construction
  lastErrorImage,      \* the grabbed frame (the number of the frame on screen), or none
  fs,                  \* the file system: per path, accessible and st_mtime
  proc,                \* the process: alive, or how it ended
  pc,                  \* "idle" between handler calls, "poll" inside updateCurrentScript
  pollIdx,             \* the loop index of updateCurrentScript (1-based)
  session,             \* the kind of session the environment plays
  draws,               \* draw calls since construction = the frame on screen
  op,                  \* the handler that made the last step
  was,                 \* the state that step started in
  failed,              \* whether a script callable raised during the last step
  drawPath,            \* the branch the last draw took: "none", "error", "running"
  rl,                  \* what the reloadScript of the last step did, or NoReload
  exam,                \* what the last loop iteration of the watch-poll did, or NoExam
  frameCount,          \* GlfwFrontend::frameCount
  buttonDown,          \* whether the host's last press/release event was a press
  calls,               \* the script callables the last handler call invoked, in order
  reg,                 \* <<prehooks, posthooks>> registered for the phase of that call
  inputKept,           \* whether the last step left the key and mouse fields as they were
  ev                   \* the mouse arguments of the last step: <<button>> of the event
                       \* delivered, <<x, y, button>> of a synthetic press, or NoEvent

vars == <<state, ruby_error, nextUpdate, scriptModifiedTime, scriptName,
          watched_files, keyIsPressed, mouseIsPressed, lastMouse, lastErrorImage,
          fs, proc, pc, pollIdx, session, draws, op, was, failed, drawPath, rl, exam,
          frameCount, buttonDown, calls, reg, inputKept, ev>>

NoReload == [done |-> FALSE]
NoExam == [done |-> FALSE]

\* the sessions of a sketch with hooks, named after the phase they hang on
HookSessions == {"setup", "update", "draw", "exit"}
NoHooks == <<0, 0>>
NoEvent == <<>>

\* --------------------------------------------------------------- the engine
\* one invocation of a script callable through zj_safe_proc_call / zj_safe_funcall
Call(fn, i, ok) == [fn |-> fn, i |-> i, ok |-> ok]

\* the outcomes of the hooks of one list, in registration order
HookOutcomes == UNION {[1..n -> BOOLEAN] : n \in 0..MaxHooks}

Hooks(fn, outs) == [i \in 1..Len(outs) |-> Call(fn, i, outs[i])]

\* ruby_error after a run of protected calls: each call overwrites it
ruby_error_after(prev, tr) == IF tr = <<>> THEN prev ELSE ~tr[Len(tr)].ok

\* zj_to_data_path: a file name resolved against the data path
zj_to_data_path(f) == "/data/" \o f

Paths == {zj_to_data_path(f) : f \in FileNames}

Missing == [ok |-> FALSE, mtime |-> 0]

stat(f) == fs[zj_to_data_path(f)]

\* ------------------------------------------------------------------- Init
Init ==
  /\ state = "NoSketch"
  /\ ruby_error = FALSE
  /\ nextUpdate = SCRIPT_UPDATE_FREQUENCY
  /\ scriptModifiedTime = 0
  /\ scriptName = NULL
  /\ watched_files = <<>>
  /\ keyIsPressed = FALSE
  /\ mouseIsPressed = FALSE
  /\ lastMouse = NoMouse
  /\ lastErrorImage = NoImage
  /\ fs \in [Paths -> {[ok |-> TRUE, mtime |-> 1]}]
  /\ proc = "alive"
  /\ pc = "idle"
  /\ pollIdx = 0
  /\ session \in {"edit", "play"} \cup HookSessions
  /\ draws = 0
  /\ op = "new"
  /\ was = "NoSketch"
  /\ failed = FALSE
  /\ drawPath = "none"
  /\ rl = NoReload
  /\ exam = NoExam
  /\ frameCount = 0
  /\ buttonDown = FALSE
  /\ calls = <<>>
  /\ reg = NoHooks
  /\ inputKept = TRUE
  /\ ev = NoEvent

Ready == proc = "alive" /\ pc = "idle"

\* the key and mouse fields of the interpreter
Input == <<keyIsPressed, mouseIsPressed, lastMouse>>

\* whether a step changes them
Kept == inputKept' = (Input' = Input)

\* what a step that is no draw, no reload and no poll iteration records
Ghost(o, tr) ==
  /\ op' = o
  /\ was' = state
  /\ calls' = tr
  /\ failed' = \E i \in 1..Len(tr) : ~tr[i].ok /\ tr[i].fn \notin {"defaults_proc", "process_error"}

\* the hook outcomes a handler consumes: none when it invokes no hook
HookInputs(on, phase) ==
  IF on /\ session = phase THEN HookOutcomes ELSE {<<>>}

\* the lengths a hook list of a phase can have
Registered(phase) == IF session = phase THEN 0..MaxHooks ELSE {0}

\* ---------------------------------------------------------------- setup()
\* the entry point only: setup() reads no hook list
setup_calls(st, main) ==
  IF st = "Running" THEN <<Call("setup_proc", 0, main)>> ELSE <<>>

setup_state(st, err) == IF st = "Running" /\ err THEN "Error" ELSE st

Setup ==
  /\ Ready /\ session \in HookSessions
  /\ \E main \in BOOLEAN :
       LET tr == setup_calls(state, main)
           err == ruby_error_after(ruby_error, tr)
       IN /\ state' = setup_state(state, err)
          /\ ruby_error' = err
          /\ Ghost("setup", tr)
  /\ \E n \in Registered("setup"), m \in Registered("setup") : reg' = <<n, m>>
  /\ drawPath' = "none" /\ rl' = NoReload /\ exam' = NoExam
  /\ ev' = NoEvent
  /\ UNCHANGED <<nextUpdate, scriptModifiedTime, scriptName, watched_files,
                 keyIsPressed, mouseIsPressed, lastMouse, lastErrorImage,
                 fs, proc, pc, pollIdx, session, draws, frameCount, buttonDown>>
  /\ Kept

\* --------------------------------------------------------------- update()
\* defaults, the prehooks, the entry point, and the posthooks unless the
\* entry point raised (the early return)
update_calls(st, d, pre, main, post) ==
  IF st = "Running"
  THEN <<Call("defaults_proc", 0, d)>> \o Hooks("update_prehooks", pre)
         \o <<Call("update_proc", 0, main)>>
         \o (IF main THEN Hooks("update_posthooks", post) ELSE <<>>)
  ELSE <<>>

\* ruby_error is read once, right after the entry point
update_state(st, main) == IF st = "Running" /\ ~main THEN "Error" ELSE st

Update ==
  /\ Ready /\ session \in HookSessions
  /\ \E d \in BOOLEAN, pre \in HookInputs(state = "Running", "update"), main \in BOOLEAN :
     \E post \in HookInputs(state = "Running" /\ main, "update") :
       LET tr == update_calls(state, d, pre, main, post)
       IN /\ state' = update_state(state, main)
          /\ ruby_error' = ruby_error_after(ruby_error, tr)
          /\ Ghost("update", tr)
          /\ reg' = <<Len(pre), Len(post)>>
  /\ drawPath' = "none" /\ rl' = NoReload /\ exam' = NoExam
  /\ ev' = NoEvent
  /\ UNCHANGED <<nextUpdate, scriptModifiedTime, scriptName, watched_files,
                 keyIsPressed, mouseIsPressed, lastMouse, lastErrorImage,
                 fs, proc, pc, pollIdx, session, draws, frameCount, buttonDown>>
  /\ Kept

\* ----------------------------------------------------------------- exit()
\* the posthooks run outside the state test, in every state
exit_calls(st, pre, main, post) ==
  (IF st = "Running"
   THEN Hooks("exit_prehooks", pre) \o <<Call("exit_proc", 0, main)>>
   ELSE <<>>)
  \o Hooks("exit_posthooks", post)

exit_state(st, main) == IF st = "Running" /\ ~main THEN "Error" ELSE st

Exit ==
  /\ Ready /\ session \in HookSessions
  /\ \E pre \in HookInputs(state = "Running", "exit"), main \in BOOLEAN,
        post \in HookInputs(TRUE, "exit") :
       LET tr == exit_calls(state, pre, main, post)
       IN /\ state' = exit_state(state, main)
          /\ ruby_error' = ruby_error_after(ruby_error, tr)
          /\ Ghost("exit", tr)
          /\ reg' = <<Len(pre), Len(post)>>
  /\ proc' = "finished"
  /\ drawPath' = "none" /\ rl' = NoReload /\ exam' = NoExam
  /\ ev' = NoEvent
  /\ UNCHANGED <<nextUpdate, scriptModifiedTime, scriptName, watched_files,
                 keyIsPressed, mouseIsPressed, lastMouse, lastErrorImage,
                 fs, pc, pollIdx, session, draws, frameCount, buttonDown>>
  /\ Kept

\* ----------------------------------------------------------------- draw()
\* a draw that skips its posthooks once the entry point raised, as update does
draw_calls_early_return(st, held, pe, d, pre, main, post, pressed) ==
  CASE st = "Error" ->
         <<Call("process_error", 0, pe), Call("defaults_proc", 0, d)>>
    [] st = "Running" ->
         Hooks("draw_prehooks", pre) \o <<Call("draw_proc", 0, main)>>
           \o (IF main THEN Hooks("draw_posthooks", post) ELSE <<>>)
           \o (IF held THEN <<Call("mouse_pressed_proc", 0, pressed)>> ELSE <<>>)
    [] OTHER -> <<>>

draw_calls(st, held, pe, d, pre, main, post, pressed) ==
  CASE st = "Error" ->
         <<Call("process_error", 0, pe), Call("defaults_proc", 0, d)>>
    [] st = "Running" ->
         Hooks("draw_prehooks", pre) \o <<Call("draw_proc", 0, main)>>
           \o Hooks("draw_posthooks", post)
           \o (IF held THEN <<Call("mouse_pressed_proc", 0, pressed)>> ELSE <<>>)
    [] OTHER -> <<>>

\* draw that takes a clean pass for a recovery
draw_state_recovers(st, main, post, err) ==
  IF st = "NoSketch" THEN st
  ELSE IF ~main \/ (\E i \in 1..Len(post) : ~post[i]) \/ err THEN "Error" ELSE "Running"

\* ruby_error is read after the entry point, after each posthook, and once
\* more after the synthetic mouse press
draw_state(st, main, post, err) ==
  IF st = "Running" /\ (~main \/ (\E i \in 1..Len(post) : ~post[i]) \/ err)
  THEN "Error" ELSE st

draw_path(st) ==
  CASE st = "Error" -> "error" [] st = "Running" -> "running" [] OTHER -> "none"

\* a frame counter that stands still
incrementFrameNum_stuck(n) == n

\* GlfwFrontend::incrementFrameNum
incrementFrameNum(n) == n + 1

\* the frontend's loop: one incrementFrameNum for each frame it draws
host_frame(n) == incrementFrameNum(n)

\* if(nextUpdate-- == 0) updateCurrentScript();
poll_due(n) == n = 0

Draw ==
  /\ Ready
  /\ draws < MaxDraws(session)
  /\ \E pe \in (IF state = "Error" THEN BOOLEAN ELSE {TRUE}),
        d \in (IF state = "Error" THEN BOOLEAN ELSE {TRUE}),
        pre \in HookInputs(state = "Running", "draw"),
        main \in (IF state = "Running" THEN BOOLEAN ELSE {TRUE}),
        post \in HookInputs(state = "Running", "draw"),
        pressed \in (IF state = "Running" /\ mouseIsPressed THEN BOOLEAN ELSE {TRUE}) :
       LET tr == draw_calls(state, mouseIsPressed, pe, d, pre, main, post, pressed)
           err == ruby_error_after(ruby_error, tr)
       IN /\ state' = draw_state(state, main, post, err)
          /\ ruby_error' = err
          /\ Ghost("draw", tr)
          /\ reg' = <<Len(pre), Len(post)>>
  /\ drawPath' = draw_path(state)
  /\ draws' = draws + 1
  /\ frameCount' = host_frame(frameCount)
  /\ nextUpdate' = nextUpdate - 1
  /\ IF poll_due(nextUpdate)
     THEN pc' = "poll" /\ pollIdx' = 1
     ELSE UNCHANGED <<pc, pollIdx>>
  /\ ev' = IF state = "Running" /\ mouseIsPressed THEN lastMouse ELSE NoEvent
  /\ rl' = NoReload /\ exam' = NoExam
  /\ UNCHANGED <<scriptModifiedTime, scriptName, watched_files,
                 keyIsPressed, mouseIsPressed, lastMouse, lastErrorImage,
                 fs, proc, session, buttonDown>>
  /\ Kept

\* ------------------------------------------------------------ key events
keyPressed_calls(st, held, k, h) ==
  IF st = "Running"
  THEN <<Call("KeyEvent.new", 0, k),
         Call(IF held THEN "key_pressed_proc" ELSE "key_down_proc", 0, h)>>
  ELSE <<>>

keyReleased_calls(st, k, h) ==
  IF st = "Running"
  THEN <<Call("KeyEvent.new", 0, k), Call("key_up_proc", 0, h)>>
  ELSE <<>>

\* ruby_error is read after the construction of the event and after the handler
key_state(st, k, h) == IF st = "Running" /\ (~k \/ ~h) THEN "Error" ELSE st

KeyPressed ==
  /\ Ready /\ session = "play"
  /\ \E k \in BOOLEAN, h \in BOOLEAN :
       LET tr == keyPressed_calls(state, keyIsPressed, k, h)
       IN /\ state' = key_state(state, k, h)
          /\ ruby_error' = ruby_error_after(ruby_error, tr)
          /\ Ghost("keyPressed", tr)
  /\ keyIsPressed' = IF state = "Running" THEN TRUE ELSE keyIsPressed
  /\ drawPath' = "none" /\ rl' = NoReload /\ exam' = NoExam
  /\ reg' = NoHooks /\ ev' = NoEvent
  /\ UNCHANGED <<nextUpdate, scriptModifiedTime, scriptName, watched_files,
                 mouseIsPressed, lastMouse, lastErrorImage,
                 fs, proc, pc, pollIdx, session, draws, frameCount, buttonDown>>
  /\ Kept

KeyReleased ==
  /\ Ready /\ session = "play"
  /\ \E k \in BOOLEAN, h \in BOOLEAN :
       LET tr == keyReleased_calls(state, k, h)
       IN /\ state' = key_state(state, k, h)
          /\ ruby_error' = ruby_error_after(ruby_error, tr)
          /\ Ghost("keyReleased", tr)
  /\ keyIsPressed' = IF state = "Running" THEN FALSE ELSE keyIsPressed
  /\ drawPath' = "none" /\ rl' = NoReload /\ exam' = NoExam
  /\ reg' = NoHooks /\ ev' = NoEvent
  /\ UNCHANGED <<nextUpdate, scriptModifiedTime, scriptName, watched_files,
                 mouseIsPressed, lastMouse, lastErrorImage,
                 fs, proc, pc, pollIdx, session, draws, frameCount, buttonDown>>
  /\ Kept

\* ---------------------------------------------- mouseMoved, windowResized
\* a handler that is also invoked while the error overlay is up
simple_calls_in_error(st, fn, h) == IF st # "NoSketch" THEN <<Call(fn, 0, h)>> ELSE <<>>

\* one protected call, ruby_error read after it
simple_calls(st, fn, h) == IF st = "Running" THEN <<Call(fn, 0, h)>> ELSE <<>>

simple_state(st, h) == IF st = "Running" /\ ~h THEN "Error" ELSE st

SimpleEvent(o, fn) ==
  /\ Ready /\ session = "play"
  /\ \E h \in BOOLEAN :
       LET tr == simple_calls(state, fn, h)
       IN /\ state' = simple_state(state, h)
          /\ ruby_error' = ruby_error_after(ruby_error, tr)
          /\ Ghost(o, tr)
  /\ drawPath' = "none" /\ rl' = NoReload /\ exam' = NoExam
  /\ reg' = NoHooks /\ ev' = NoEvent
  /\ UNCHANGED <<nextUpdate, scriptModifiedTime, scriptName, watched_files,
                 keyIsPressed, mouseIsPressed, lastMouse, lastErrorImage,
                 fs, proc, pc, pollIdx, session, draws, frameCount, buttonDown>>
  /\ Kept

MouseMoved == SimpleEvent("mouseMoved", "mouse_moved_proc")

WindowResized == SimpleEvent("windowResized", "window_resized_proc")

\* ---------------------------------------------------------- mouse buttons
\* a mapping that coerces an unknown button to the left one
zj_button_to_symbol_coerces(button) ==
  CASE button = 0 -> "left"
    [] button = 1 -> "middle"
    [] button = 2 -> "right"
    [] OTHER -> "left"

zj_button_to_symbol(button) ==
  CASE button = 0 -> "left"
    [] button = 1 -> "middle"
    [] button = 2 -> "right"
    [] OTHER -> "rb_bug"

\* a mouse handler with a button: rb_bug aborts the process before the call
MouseButtonEvent(o, fn, setsLast, held) ==
  /\ Ready /\ session = "play"
  /\ \E pos \in Positions, button \in Buttons, h \in BOOLEAN :
       /\ LET sym == zj_button_to_symbol(button)
              tr == simple_calls(state, fn, h)
          IN IF state = "Running" /\ sym = "rb_bug"
          THEN /\ proc' = "abort"
               /\ op' = o /\ was' = state /\ failed' = FALSE /\ calls' = <<>>
               /\ UNCHANGED <<state, ruby_error, mouseIsPressed, lastMouse>>
          ELSE /\ state' = simple_state(state, h)
               /\ ruby_error' = ruby_error_after(ruby_error, tr)
               /\ Ghost(o, tr)
               /\ lastMouse' = IF state = "Running" /\ setsLast
                               THEN <<pos[1], pos[2], sym>> ELSE lastMouse
               /\ mouseIsPressed' = IF state = "Running" /\ held # "keep"
                                    THEN held = "down" ELSE mouseIsPressed
               /\ UNCHANGED proc
       /\ ev' = <<button>>
  /\ buttonDown' = IF held = "keep" THEN buttonDown ELSE held = "down"
  /\ drawPath' = "none" /\ rl' = NoReload /\ exam' = NoExam
  /\ reg' = NoHooks
  /\ UNCHANGED <<nextUpdate, scriptModifiedTime, scriptName, watched_files,
                 keyIsPressed, lastErrorImage, fs, pc, pollIdx, session, draws, frameCount>>
  /\ Kept

MouseDragged == MouseButtonEvent("mouseDragged", "mouse_dragged_proc", TRUE, "keep")

MousePressed == MouseButtonEvent("mousePressed", "mouse_down_proc", TRUE, "down")

MouseReleased == MouseButtonEvent("mouseReleased", "mouse_up_proc", FALSE, "up")

\* ------------------------------------------------------------ initialize()
\* ::exit(1): a file that cannot be accessed
EXIT_INACCESSIBLE == 1

\* ::exit(2): no load path
EXIT_NO_LOAD_PATH == 2

\* the process after ::exit(status)
Exited(status) == "exit" \o ToString(status)

\* RARRAY_LEN of the load path: the -I options, the entries of ZAJAL_PATH and,
\* unless the build sets EMPTY_LOADPATH, the library and the stdlib path
load_path_len(options, env, emptyBuild) ==
  options + env + (IF emptyBuild THEN 0 ELSE 2)

\* an exit for no load path with the status of an inaccessible file
initialize_exit_same(len) == IF len = 0 THEN Exited(EXIT_INACCESSIBLE) ELSE "alive"

\* bail out if no load path was set from environment or command line
initialize_exit(len) == IF len = 0 THEN Exited(EXIT_NO_LOAD_PATH) ELSE "alive"

\* the first call of the host after construction
Initialize ==
  /\ Ready /\ op = "new"
  /\ \E options \in 0..1, env \in 0..1, emptyBuild \in BOOLEAN :
       proc' = initialize_exit(load_path_len(options, env, emptyBuild))
  /\ op' = "initialize" /\ was' = state /\ failed' = FALSE /\ calls' = <<>>
  /\ drawPath' = "none" /\ rl' = NoReload /\ exam' = NoExam
  /\ reg' = NoHooks /\ ev' = NoEvent
  /\ UNCHANGED <<state, ruby_error, nextUpdate, scriptModifiedTime, scriptName,
                 watched_files, keyIsPressed, mouseIsPressed, lastMouse,
                 lastErrorImage, fs, pc, pollIdx, session, draws, frameCount,
                 buttonDown>>
  /\ Kept

\* ------------------------------------------------------------ loadScript()
\* the new entry goes to the front of the watch list, whatever it holds
watch_unshift(list, path) == <<path>> \o list

LoadScript ==
  /\ Ready
  /\ Len(watched_files) < (IF session = "edit" THEN MaxWatch ELSE 1)
  /\ \E f \in Scripts(session) :
       /\ scriptName' = f
       /\ IF stat(f).ok
          THEN /\ watched_files' = watch_unshift(watched_files, zj_to_data_path(f))
               /\ UNCHANGED proc
          ELSE /\ proc' = Exited(EXIT_INACCESSIBLE)
               /\ UNCHANGED watched_files
  /\ op' = "loadScript" /\ was' = state /\ failed' = FALSE /\ calls' = <<>>
  /\ drawPath' = "none" /\ rl' = NoReload /\ exam' = NoExam
  /\ reg' = NoHooks /\ ev' = NoEvent
  /\ UNCHANGED <<state, ruby_error, nextUpdate, scriptModifiedTime,
                 keyIsPressed, mouseIsPressed, lastMouse, lastErrorImage,
                 fs, pc, pollIdx, session, draws, frameCount, buttonDown>>
  /\ Kept

\* ---------------------------------------------------------- reloadScript()
\* a reload that is forced only when asked
reload_forced_as_asked(st, forced) == forced

\* recovering from an error, force restart
reload_forced(st, forced) == forced \/ st = "Error"

\* a reload that grabs the screen in every state
reload_grabs_always(st) == TRUE

\* the screen is grabbed before the evaluation, while Running only
reload_grabs(st) == st = "Running"

\* the reset evaluation (forced only), then the evaluation of the content
reload_calls(st, forced, r, c) ==
  (IF reload_forced(st, forced) THEN <<Call("live_load_reset", 0, r)>> ELSE <<>>)
  \o <<Call("live_load", 0, c)>>

\* a reload that never looks at ruby_error
reload_state_ignores_error(err) == "Running"

\* state = ruby_error ? INTERPRETER_ERROR : INTERPRETER_RUNNING
reload_state(err) == IF err THEN "Error" ELSE "Running"

\* reloadScript(forced) entered in state st; r and c are the outcomes of the
\* two evaluations.  fopen of an inaccessible script returns NULL and the
\* fseek that follows ends the process.
reloadScript(st, forced, r, c) ==
  IF scriptName = NULL \/ ~stat(scriptName).ok
  THEN /\ proc' = "crashed"
       /\ state' = st
       /\ failed' = FALSE
       /\ rl' = NoReload
       /\ UNCHANGED <<ruby_error, lastErrorImage>>
  ELSE LET tr == reload_calls(st, forced, r, c)
           err == ruby_error_after(ruby_error, tr)
       IN /\ lastErrorImage' = IF reload_grabs(st) THEN <<draws>> ELSE lastErrorImage
          /\ ruby_error' = err
          /\ state' = reload_state(err)
          /\ failed' = \E i \in 1..Len(tr) : ~tr[i].ok
          /\ rl' = [done |-> TRUE, pre |-> st, forced |-> forced,
                    calls |-> tr, flag |-> reload_forced(st, forced),
                    ok |-> c, grabbed |-> reload_grabs(st),
                    image |-> lastErrorImage]
          /\ UNCHANGED proc

\* a reload requested by the host while a sketch is up
ReloadScript ==
  /\ Ready
  /\ state # "NoSketch"
  /\ \E forced \in BOOLEAN, c \in BOOLEAN :
     \E r \in (IF reload_forced(state, forced) THEN BOOLEAN ELSE {TRUE}) :
       reloadScript(state, forced, r, c)
  /\ op' = "reloadScript" /\ was' = state
  /\ drawPath' = "none" /\ exam' = NoExam
  /\ calls' = <<>> /\ reg' = NoHooks /\ ev' = NoEvent
  /\ UNCHANGED <<nextUpdate, scriptModifiedTime, scriptName, watched_files,
                 keyIsPressed, mouseIsPressed, lastMouse, fs, pc, pollIdx, session, draws, frameCount, buttonDown>>
  /\ Kept

\* -------------------------------------------------------------------- run()
\* state = INTERPRETER_RUNNING; reloadScript(); then the host loop takes over
Run ==
  /\ Ready
  /\ state = "NoSketch"
  /\ scriptName # NULL
  /\ \E c \in BOOLEAN : reloadScript("Running", FALSE, TRUE, c)
  /\ op' = "run" /\ was' = state
  /\ drawPath' = "none" /\ exam' = NoExam
  /\ calls' = <<>> /\ reg' = NoHooks /\ ev' = NoEvent
  /\ UNCHANGED <<nextUpdate, scriptModifiedTime, scriptName, watched_files,
                 keyIsPressed, mouseIsPressed, lastMouse, fs, pc, pollIdx, session, draws, frameCount, buttonDown>>
  /\ Kept

\* ---------------------------------------------------- updateCurrentScript()
\* attrib.st_mtimespec.tv_sec > scriptModifiedTime
should_reload(mtime, seen) == mtime > seen

\* if(i > 0) rb_funcall(rb_mKernel, "load", filePath): i counts from 0
loads_in_place(i) == i > 1

\* one iteration of the loop over the watch list.  l is the outcome of the
\* unprotected load of a dependency: when it raises nothing catches it.
PollFile ==
  /\ proc = "alive" /\ pc = "poll"
  /\ pollIdx <= Len(watched_files)
  /\ LET path == watched_files[pollIdx]
         a == fs[path]
         E(trig, loaded, loadOk, reloaded) ==
           [done |-> TRUE, i |-> pollIdx, path |-> path, mtime |-> a.mtime,
            seen |-> scriptModifiedTime, triggered |-> trig,
            loaded |-> loaded, loadOk |-> loadOk, reloaded |-> reloaded]
     IN IF ~a.ok
        THEN /\ proc' = Exited(EXIT_INACCESSIBLE)
             /\ exam' = NoExam /\ rl' = NoReload /\ failed' = FALSE
             /\ UNCHANGED <<state, ruby_error, lastErrorImage, scriptModifiedTime>>
        ELSE IF should_reload(a.mtime, scriptModifiedTime)
        THEN /\ scriptModifiedTime' = a.mtime
             /\ \E l \in (IF loads_in_place(pollIdx) THEN BOOLEAN ELSE {TRUE}) :
                  IF ~l
                  THEN /\ proc' = "uncaught"
                       /\ exam' = E(TRUE, TRUE, FALSE, FALSE)
                       /\ rl' = NoReload /\ failed' = TRUE
                       /\ UNCHANGED <<state, ruby_error, lastErrorImage>>
                  ELSE /\ \E c \in BOOLEAN :
                          \E r \in (IF state = "Error" THEN BOOLEAN ELSE {TRUE}) :
                            reloadScript(state, FALSE, r, c)
                       /\ exam' = E(TRUE, loads_in_place(pollIdx), TRUE, proc' = "alive")
        ELSE /\ exam' = E(FALSE, FALSE, TRUE, FALSE)
             /\ rl' = NoReload /\ failed' = FALSE
             /\ UNCHANGED <<state, ruby_error, lastErrorImage, scriptModifiedTime, proc>>
  /\ pollIdx' = pollIdx + 1
  /\ op' = "poll" /\ was' = state
  /\ drawPath' = "none" /\ ev' = NoEvent
  /\ UNCHANGED <<nextUpdate, scriptName, watched_files, keyIsPressed,
                 mouseIsPressed, lastMouse, fs, pc, session, draws, frameCount, buttonDown,
                 calls, reg>>
  /\ Kept

\* the loop is over: nextUpdate = SCRIPT_UPDATE_FREQUENCY, and draw returns
PollDone ==
  /\ proc = "alive" /\ pc = "poll"
  /\ pollIdx > Len(watched_files)
  /\ nextUpdate' = SCRIPT_UPDATE_FREQUENCY
  /\ pc' = "idle" /\ pollIdx' = 0
  /\ op' = "pollDone" /\ was' = state /\ failed' = FALSE
  /\ drawPath' = "none" /\ rl' = NoReload /\ exam' = NoExam
  /\ ev' = NoEvent
  /\ UNCHANGED <<state, ruby_error, scriptModifiedTime, scriptName, watched_files,
                 keyIsPressed, mouseIsPressed, lastMouse, lastErrorImage,
                 fs, proc, session, draws, frameCount, buttonDown, calls, reg>>
  /\ Kept

\* --------------------------------------------------------- the file system
\* what a step of the world outside the program records: no handler ran
Outside ==
  /\ op' = "fs" /\ was' = state /\ failed' = FALSE
  /\ drawPath' = "none" /\ rl' = NoReload /\ exam' = NoExam
  /\ calls' = <<>> /\ reg' = NoHooks /\ ev' = NoEvent /\ inputKept' = TRUE

\* an edit outside the program: the file gets another modification time
Touch ==
  /\ Ready /\ session = "edit"
  /\ \E p \in Paths, t \in 1..MaxTime :
       /\ fs[p] # [ok |-> TRUE, mtime |-> t]
       /\ fs' = [fs EXCEPT ![p] = [ok |-> TRUE, mtime |-> t]]
  /\ UNCHANGED <<state, ruby_error, nextUpdate, scriptModifiedTime, scriptName,
                 watched_files, keyIsPressed, mouseIsPressed, lastMouse,
                 lastErrorImage, proc, pc, pollIdx, session, draws, frameCount,
                 buttonDown>>
  /\ Outside

\* a file is deleted or made unreadable
Remove ==
  /\ Ready /\ session = "edit"
  /\ \E p \in Paths :
       /\ fs[p].ok
       /\ fs' = [fs EXCEPT ![p] = Missing]
  /\ UNCHANGED <<state, ruby_error, nextUpdate, scriptModifiedTime, scriptName,
                 watched_files, keyIsPressed, mouseIsPressed, lastMouse,
                 lastErrorImage, proc, pc, pollIdx, session, draws, frameCount,
                 buttonDown>>
  /\ Outside

\* ----------------------------------------------------------- specification
Next ==
  \/ Initialize \/ LoadScript \/ Run \/ ReloadScript
  \/ Setup \/ Update \/ Draw \/ Exit
  \/ KeyPressed \/ KeyReleased \/ MouseMoved \/ WindowResized
  \/ MouseDragged \/ MousePressed \/ MouseReleased
  \/ PollFile \/ PollDone
  \/ Touch \/ Remove

Spec == Init /\ [][Next]_vars

\* ================================================================= claims
Phases == {"setup", "update", "draw", "exit"}

Events == {"keyPressed", "keyReleased", "mouseMoved", "mouseDragged",
           "mousePressed", "mouseReleased", "windowResized"}

\* the last step ran reloadScript to its end
Reloaded == rl.done

\* the last step examined a watched file
Examined == exam.done

\* C1: whenever a script-defined callable (prehook, entry point or posthook)
\* raised during a setup, update, draw or exit call that began in Running,
\* state is Error when the call has returned.
C1_FailureSetsError ==
  (op \in Phases /\ was = "Running" /\ failed /\ pc = "idle") => state = "Error"

\* C2: a failure raised while a watch-poll evaluates a watched file, be it
\* the primary script or a dependency loaded in place, leaves the process
\* alive and state Error.
C2_PollFailureContained ==
  (Examined /\ exam.triggered
     /\ ((exam.loaded /\ ~exam.loadOk) \/ (Reloaded /\ ~rl.ok)))
  => (proc = "alive" /\ state = "Error")

\* C3: when reloadScript returns, state is Error if the engine reported an
\* error for the evaluation of the script and Running otherwise, whatever the
\* state before the reload and whatever the forced flag.
C3_ReloadStateFromEngine ==
  Reloaded => state = (IF rl.ok THEN "Running" ELSE "Error")

C3_Witness ==
  Reloaded /\ rl.pre = "Error" /\ ~rl.forced /\ rl.ok /\ state = "Running"

\* C4: a setup, update, draw, exit or input-event call that begins in Error
\* ends in Error; a step from Error to Running is a reload, manual or
\* triggered by the watch-poll, whose evaluation succeeded.
C4_ErrorLeftOnlyByReload ==
  /\ (was = "Error" /\ op \in Phases \cup Events) => state = "Error"
  /\ (was = "Error" /\ state = "Running")
       => (op \in {"reloadScript", "poll"} /\ Reloaded /\ rl.ok)

C4_Witness ==
  was = "Error" /\ state = "Running" /\ op = "poll" /\ Reloaded /\ rl.ok

\* C5: a phase or event call that takes the state from Running to Error
\* leaves the frame on screen at that moment as the held snapshot (for a
\* failing draw: the frame it was drawing, or the one before it).
C5_SnapshotAtFailure ==
  (op \in Phases \cup Events /\ was = "Running" /\ state = "Error")
  => \/ lastErrorImage = <<draws>>
     \/ op = "draw" /\ lastErrorImage = <<draws - 1>>

C7_PollEveryKthDraw ==
  op = "draw" => ((pc = "poll") <=> (draws % SCRIPT_UPDATE_FREQUENCY = 0))

\* C8: nextUpdate lies between 0 and the interval in every state, the states
\* inside the watch-poll included.
C8_NextUpdateInRange == nextUpdate \in 0..SCRIPT_UPDATE_FREQUENCY

\* C9: no path occurs twice in the watch list.
C9_NoDuplicateWatch ==
  \A i, j \in 1..Len(watched_files) :
    i # j => watched_files[i] # watched_files[j]

\* C10: an examined file triggers iff its modification time is greater than
\* the shared timestamp it is compared with; when it triggers the timestamp
\* becomes that time, the file is loaded in place iff it is not the first of
\* the list, and the primary script is reloaded.
C10_TriggerThenReload ==
  Examined =>
    /\ exam.triggered <=> exam.mtime > exam.seen
    /\ exam.triggered =>
         /\ scriptModifiedTime = exam.mtime
         /\ exam.loaded <=> exam.i > 1
         /\ exam.reloaded

\* C11: a reload started in Error is forced whatever the flag it was given:
\* the engine reset is evaluated first, then the content, with the reset flag
\* set; a reload started while Running with forced = false evaluates no reset
\* and the content exactly once, with the reset flag clear.
C11_ErrorReloadIsForced ==
  Reloaded =>
    /\ rl.pre = "Error" =>
         /\ Len(rl.calls) = 2
         /\ rl.calls[1].fn = "live_load_reset"
         /\ rl.calls[2].fn = "live_load"
         /\ rl.flag
    /\ (rl.pre = "Running" /\ ~rl.forced) =>
         /\ Len(rl.calls) = 1
         /\ rl.calls[1].fn = "live_load"
         /\ ~rl.flag

C11_Witness ==
  /\ Reloaded /\ rl.pre = "Error" /\ ~rl.forced
  /\ Len(rl.calls) = 2 /\ ~rl.calls[1].ok /\ rl.flag

\* ------------------------------------------------- the trace of a phase
\* the callables of a phase that a call with n prehooks and m posthooks
\* registered invokes when it runs the whole pipeline and nothing raises
Pipeline(phase, n, m) ==
  [i \in 1..n |-> Call(phase \o "_prehooks", i, TRUE)]
    \o <<Call(phase \o "_proc", 0, TRUE)>>
    \o [i \in 1..m |-> Call(phase \o "_posthooks", i, TRUE)]

\* the hooks and the entry point of a phase among the calls of the last handler
PhaseCalls(phase) ==
  SelectSeq(calls, LAMBDA c : c.fn \in {phase \o "_prehooks", phase \o "_proc",
                                        phase \o "_posthooks"})

Invoked(fn) == SelectSeq(calls, LAMBDA c : c.fn = fn)

NoneFailed == \A i \in 1..Len(calls) : calls[i].ok

Raised(fn) == \E i \in 1..Len(calls) : calls[i].fn = fn /\ ~calls[i].ok

\* C12: a phase (setup, update, draw, exit) called while Running in which no
\* invocation fails runs every registered prehook in registration order,
\* then the entry point exactly once, then every registered posthook in
\* registration order.
C12_PhasePipelineInOrder ==
  (op \in Phases /\ was = "Running" /\ NoneFailed) =>
    PhaseCalls(op) = Pipeline(op, reg[1], reg[2])

\* C13: when the entry point of update or of exit fails while Running, state
\* becomes Error and no posthook of that phase is invoked in that call.
C13_EntryFailureSkipsPosthooks ==
  (op \in {"update", "exit"} /\ was = "Running" /\ Raised(op \o "_proc")) =>
    (state = "Error" /\ Invoked(op \o "_posthooks") = <<>>)

\* the last draw call took the Running path (only that path calls draw_proc)
DrewRunning == Invoked("draw_proc") # <<>>

\* every registered draw posthook was invoked exactly once, in order
PosthooksEachOnce ==
  /\ Len(Invoked("draw_posthooks")) = reg[2]
  /\ \A i \in 1..reg[2] : Invoked("draw_posthooks")[i].i = i

\* draw has returned: straight away, or when its watch-poll is over
DrawReturned == (op = "draw" /\ pc = "idle") \/ op = "pollDone"

\* C14 as stated: in a draw call that starts in Running every registered draw
\* posthook is invoked exactly once and in order, also after the entry point
\* or an earlier posthook failed, and if a posthook fails state is Error when
\* draw returns.
C14_PosthookFailureErrorAtReturn ==
  (DrawReturned /\ DrewRunning) =>
    /\ PosthooksEachOnce
    /\ Raised("draw_posthooks") => state = "Error"

\* C14 amended: the posthooks all run, once each and in order, whatever
\* failed before them; if one fails state is Error when the phase work of
\* draw is over, and from then to the return of draw only a reload made by
\* the watch-poll of the same call changes it.
C14_PosthookFailureErrorAfterPhase ==
  /\ (op \in {"draw", "poll", "pollDone"} /\ DrewRunning) => PosthooksEachOnce
  /\ (op = "draw" /\ DrewRunning /\ Raised("draw_posthooks")) => state = "Error"
  /\ (op \in {"poll", "pollDone"} /\ state # was) => Reloaded

C14_Witness ==
  /\ op = "draw" /\ DrewRunning /\ Raised("draw_proc")
  /\ reg[2] = 2 /\ Len(Invoked("draw_posthooks")) = 2
  /\ ~Invoked("draw_posthooks")[1].ok /\ Invoked("draw_posthooks")[2].ok
  /\ state = "Error"

\* C15: a draw call that takes the Running path re-invokes the mouse-press
\* handler, with the last known position and button, if and only if a button
\* is held down, i.e. the last press the host delivered has not been followed
\* by a release the host delivered, after any events, failures and reloads.
C15_SyntheticPressIffHeld ==
  (op = "draw" /\ was = "Running") =>
    /\ Invoked("mouse_pressed_proc") # <<>> <=> buttonDown
    /\ Invoked("mouse_pressed_proc") # <<>> => ev = lastMouse

MouseButtonOps == {"mousePressed", "mouseDragged", "mouseReleased"}

\* the symbol the mapping is claimed to give for the buttons 0, 1, 2
ButtonName(b) == <<"left", "middle", "right">>[b + 1]

\* C16 as stated: a mouse event (pressed, dragged, released) with a button
\* other than 0, 1, 2 aborts the process, whatever the interpreter state.
C16_UnknownButtonAlwaysAborts ==
  (op \in MouseButtonOps /\ ev[1] \notin 0..2) => proc = "abort"

\* C16 amended: 0, 1, 2 map to left, middle, right; a mouse event delivered
\* while Running with any other button aborts the process before a handler
\* is invoked and without a move to Error; a mouse event delivered in
\* NoSketch or Error is ignored whatever its button.
C16_UnknownButtonAbortsWhenRunning ==
  op \in MouseButtonOps =>
    /\ was = "Running" =>
         /\ proc = "abort" <=> ev[1] \notin 0..2
         /\ proc = "abort" => (state = "Running" /\ calls = <<>>)
         /\ (proc = "alive" /\ op # "mouseReleased") => lastMouse[3] = ButtonName(ev[1])
    /\ was # "Running" => (proc = "alive" /\ calls = <<>> /\ state = was)

C16_Witness ==
  op = "mouseReleased" /\ was = "Running" /\ ev = <<3>> /\ proc = "abort"

\* C17: a watched file found inaccessible by the watch-poll, or a primary
\* script inaccessible at loadScript, ends the process with a non-zero exit
\* status, as the last thing the program does and without a change of state;
\* the exit status for no load path is non-zero too and is another one.
C17_FatalExits ==
  /\ op = "poll" => (~fs[watched_files[pollIdx - 1]].ok <=> proc = Exited(EXIT_INACCESSIBLE))
  /\ op = "loadScript" => (~stat(scriptName).ok <=> proc = Exited(EXIT_INACCESSIBLE))
  /\ proc = Exited(EXIT_INACCESSIBLE) =>
       (op \in {"loadScript", "poll"} /\ state = was /\ EXIT_INACCESSIBLE # 0)
  /\ (op = "initialize" /\ proc # "alive") =>
       /\ proc = Exited(EXIT_NO_LOAD_PATH) /\ state = was
       /\ EXIT_NO_LOAD_PATH # 0
       /\ proc # Exited(EXIT_INACCESSIBLE)

C17_Witness ==
  /\ op = "poll" /\ was = "Running" /\ ~fs[watched_files[pollIdx - 1]].ok
  /\ proc = Exited(EXIT_INACCESSIBLE) /\ state = "Running"

Names(tr) == [i \in 1..Len(tr) |-> tr[i].fn]

\* the handlers that do nothing outside Running, and draw
Guarded == {"setup", "update", "draw"} \cup Events

\* C19: a call of setup, update, draw or of a key, mouse or window-resize
\* handler that begins in Error invokes no entry point, handler or hook (draw
\* invokes the error formatter and the defaults hook only) and leaves
\* keyIsPressed, mouseIsPressed and the last pointer position and button as
\* they were.
C19_ErrorIsInert ==
  (op \in Guarded /\ was = "Error") =>
    /\ Names(calls) = IF op = "draw" THEN <<"process_error", "defaults_proc">>
                      ELSE <<>>
    /\ inputKept

C19_Witness ==
  /\ op = "mouseReleased" /\ was = "Error" /\ state = "Error" /\ calls = <<>>
  /\ mouseIsPressed /\ ~buttonDown /\ lastMouse # NoMouse /\ inputKept

\* C20: when no watched file is modified after loadScript and run(), no
\* watch-poll triggers a reload (no file is ever edited outside an "edit"
\* session, and a poll that starts in Running or Error comes after run()).
C20_NoReloadWithoutChange ==
  (session # "edit" /\ Examined /\ was # "NoSketch") => ~exam.triggered

====
